---- MODULE Spec2Model ----
(***************************************************************************)
(* A model of diff.c of GetHooks: the comparison of two snapshots of the   *)
(* HOOK objects of the attached desktops.                                  *)
(*                                                                         *)
(* Pointers are integers: NULL is 0, a non-NULL gui pointer is an index    *)
(* into GuiTable, a list pointer is the position of the item in its list.  *)
(* A call that can end in FAIL_IF / exit(1) returns an outcome record      *)
(* [st, ret]: st is "ok" when the call returns (ret is its value) and      *)
(* "fatal" when the process exits inside the call.                         *)
(***************************************************************************)
EXTENDS Integers, Sequences, FiniteSets, TLC

VARIABLES
    G_config,   \* G->config: the proglist and the hooklist of the user
    w_hook,     \* is_hook_wanted: the hook struct passed in
    w_ret,      \* is_hook_wanted: the outcome of the call, "pending" before it
    h_a,        \* print_diff_hook: the old hook info
    h_b,        \* print_diff_hook: the new hook info
    h_res,      \* print_diff_hook: the outcome of the call, "pending" before it
    list1,      \* print_diff_desktop_hook_lists: the old desktop hook store
    list2,      \* print_diff_desktop_hook_lists: the new desktop hook store
    a_item,     \* the desktop hook item a of list1 that is compared, or NULL
    b_item,     \* the desktop hook item b of list2 that is compared, or NULL
    a_hi,       \* print_diff_desktop_hook_items: the index into a->hook
    b_hi,       \* print_diff_desktop_hook_items: the index into b->hook
    pc,         \* where the comparison of the two stores is
    out,        \* what has been printed
    classified  \* history: the hooks handled so far, as <<what, desktop, key>>

wanted_vars == <<w_hook, w_ret>>
hook_vars == <<h_a, h_b, h_res>>
diff_vars == <<list1, list2, a_item, b_item, a_hi, b_hi, pc, out, classified>>
vars == <<G_config, wanted_vars, hook_vars, diff_vars>>

NULL == 0

\* ------------------------------------------------------------------ bounds
MaxItems == 2        \* list items in one include/exclude list
MaxDiffFields == 2   \* fields in which the two hook structs of a pair differ
MaxKey == 3          \* hooks on one desktop
MaxDesktops == 2     \* desktop hook items in one store

\* ----------------------------------------------------------------- strings
\* A WCHAR buffer is a sequence of characters ending in NUL; <<>> is a NULL
\* buffer pointer.
NUL == "NUL"

Name_unknown == <<"<", "u", "n", "k", "n", "o", "w", "n", ">", NUL>>
Name_a_exe   == <<"a", ".", "e", "x", "e", NUL>>
Name_A_EXE   == <<"A", ".", "E", "X", "E", NUL>>
Name_b_exe   == <<"b", ".", "e", "x", "e", NUL>>

towlower(c) ==
    CASE c = "A" -> "a"
      [] c = "B" -> "b"
      [] c = "E" -> "e"
      [] c = "X" -> "x"
      [] OTHER   -> c

\* wcslen(): the characters before the first NUL
RECURSIVE wcslen_from(_, _)
wcslen_from(s, i) == IF s[i] = NUL THEN i - 1 ELSE wcslen_from(s, i + 1)

wcslen(s) == wcslen_from(s, 1)

\* _wcsicmp(): zero iff the two strings are equal when lowercased
RECURSIVE wcsicmp_from(_, _, _)
wcsicmp_from(s1, s2, i) ==
    IF towlower(s1[i]) # towlower(s2[i]) THEN 1
    ELSE IF s1[i] = NUL THEN 0
    ELSE wcsicmp_from(s1, s2, i + 1)

wcsicmp(s1, s2) == wcsicmp_from(s1, s2, 1)

\* wcsncmp(): zero iff the first 'count' characters are equal, the comparison
\* ending at a NUL
RECURSIVE wcsncmp_from(_, _, _, _)
wcsncmp_from(s1, s2, count, i) ==
    IF i > count THEN 0
    ELSE IF s1[i] # s2[i] THEN 1
    ELSE IF s1[i] = NUL THEN 0
    ELSE wcsncmp_from(s1, s2, count, i + 1)

wcsncmp(s1, s2, count) == wcsncmp_from(s1, s2, count, 1)

\* ------------------------------------------------------------- gui structs
\* struct gui, with the pointed-to thread and process information flattened
\* in: sti / spi say whether the pointer is non-NULL, tid / pid / ImageName
\* are what is read through them.
UnicodeString(buf) ==
    [Buffer |-> buf,
     Length |-> IF buf = <<>> THEN 0 ELSE 2 * wcslen(buf)]

Gui(info, teb, sti, tid, spi, pid, buf) ==
    [pvWin32ThreadInfo |-> info, pvTeb |-> teb,
     sti |-> sti, tid |-> tid,
     spi |-> spi, pid |-> pid, ImageName |-> UnicodeString(buf)]

\* The gui structs of the snapshots. 1 and 2 hold nothing resolvable, 1 by
\* lacking the thread and process information, 2 by holding zeroes and the
\* name "<unknown>"; 3..6 are resolvable.
GuiTable ==
    << Gui(0, 0, FALSE, 0, FALSE, 0, <<>>),
       Gui(0, 0, TRUE, 0, TRUE, 0, Name_unknown),
       Gui(1, 1, TRUE, 10, TRUE, 100, Name_a_exe),
       Gui(2, 2, TRUE, 20, TRUE, 200, Name_A_EXE),
       Gui(2, 2, TRUE, 20, TRUE, 200, Name_b_exe),
       Gui(3, 3, TRUE, 30, TRUE, 300, <<>>) >>

GuiPtr == 0 .. Len(GuiTable)     \* NULL or a pointer to a gui struct

\* What a string literal reads as when it is taken for a struct gui: its
\* first field is the text of the literal, which is the address of no thread
\* information; only that the rest is something is known.
LiteralStruct == Gui(-1, -1, TRUE, -1, TRUE, -1, <<>>)

LiteralPtr == Len(GuiTable) + 1

\* *gui
deref(gui) == IF gui = LiteralPtr THEN LiteralStruct ELSE GuiTable[gui]

\* --------------------------------------------------------------- outcomes
Ok(v) == [st |-> "ok", ret |-> v]

Fatal == [st |-> "fatal", ret |-> FALSE]

\* a || b of C on two calls: b is not evaluated when a is nonzero
OrElse(r1, r2) == IF r1.st # "ok" \/ r1.ret THEN r1 ELSE r2

\* ------------------------------------------------------------------ filter
\* match_gui_process_name()
match_gui_process_name(gui, name) ==
    IF gui = NULL THEN Fatal
    ELSE IF name = <<>> THEN Fatal
    ELSE Ok(/\ deref(gui).spi
            /\ deref(gui).ImageName.Buffer # <<>>
            /\ wcsicmp(deref(gui).ImageName.Buffer, name) = 0)

\* match_gui_process_pid()
match_gui_process_pid(gui, pid) ==
    IF gui = NULL THEN Fatal
    ELSE IF pid = 0 THEN Fatal
    ELSE Ok(deref(gui).spi /\ pid = deref(gui).pid)

\* match_hook_process_pid(). The second FAIL_IF of the function tests `name',
\* which is no parameter of the function: it says nothing about the
\* arguments. A pid of zero is caught by match_gui_process_pid().
match_hook_process_pid(hook, pid) ==
    OrElse(IF hook.owner # NULL
               THEN match_gui_process_pid(hook.owner, pid) ELSE Ok(FALSE),
    OrElse(IF hook.origin # NULL
               THEN match_gui_process_pid(hook.origin, pid) ELSE Ok(FALSE),
           IF hook.target # NULL
               THEN match_gui_process_pid(hook.target, pid) ELSE Ok(FALSE)))

\* match_hook_process_name()
match_hook_process_name(hook, name) ==
    IF name = <<>> THEN Fatal
    ELSE OrElse(IF hook.owner # NULL
                    THEN match_gui_process_name(hook.owner, name) ELSE Ok(FALSE),
         OrElse(IF hook.origin # NULL
                    THEN match_gui_process_name(hook.origin, name) ELSE Ok(FALSE),
                IF hook.target # NULL
                    THEN match_gui_process_name(hook.target, name) ELSE Ok(FALSE)))

\* the loop over G->config->proglist of is_hook_wanted(), from item i on:
\* the outcome holds `yes'
RECURSIVE proglist_loop(_, _, _)
proglist_loop(hook, head, i) ==
    IF i > Len(head) THEN Ok(FALSE)
    ELSE LET r == IF head[i].name # <<>>
                      THEN match_hook_process_name(hook, head[i].name)
                      ELSE match_hook_process_pid(hook, head[i].id)
         IN  IF r.st # "ok" \/ r.ret THEN r ELSE proglist_loop(hook, head, i + 1)

\* the loop over G->config->hooklist of is_hook_wanted()
RECURSIVE hooklist_loop(_, _, _)
hooklist_loop(hook, head, i) ==
    IF i > Len(head) THEN FALSE
    ELSE IF head[i].id = hook.iHook THEN TRUE
    ELSE hooklist_loop(hook, head, i + 1)

\* the second half of is_hook_wanted(): the list of hooks to include/exclude
hooklist_wanted(hook, config) ==
    IF /\ config.hooklist.init_time # 0
       /\ config.hooklist.type \in {"LIST_INCLUDE_HOOK", "LIST_EXCLUDE_HOOK"}
    THEN LET yes == hooklist_loop(hook, config.hooklist.head, 1)
         IN  ~ \/ (yes /\ config.hooklist.type = "LIST_EXCLUDE_HOOK")
               \/ (~yes /\ config.hooklist.type = "LIST_INCLUDE_HOOK")
    ELSE TRUE

\* is_hook_wanted()
is_hook_wanted(hook, config) ==
    IF /\ config.proglist.init_time # 0
       /\ config.proglist.type \in {"LIST_INCLUDE_PROG", "LIST_EXCLUDE_PROG"}
    THEN LET r == proglist_loop(hook, config.proglist.head, 1)
         IN  IF r.st # "ok" THEN r
             ELSE IF \/ (r.ret /\ config.proglist.type = "LIST_EXCLUDE_PROG")
                     \/ (~r.ret /\ config.proglist.type = "LIST_INCLUDE_PROG")
                  THEN Ok(FALSE)
                  ELSE Ok(hooklist_wanted(hook, config))
    ELSE Ok(hooklist_wanted(hook, config))

\* ------------------------------------------------------------ hook structs
\* struct hook: the HANDLEENTRY (entry), the HOOK (object) and the three gui
\* threads. key is what compare_hook() orders the hooks of a desktop by.
Hook(key, pHead, bFlags, owner, origin, target, iHook, flags, cLockObj) ==
    [key |-> key, pHead |-> pHead, bFlags |-> bFlags,
     owner |-> owner, h |-> 1, cLockObj |-> cLockObj, origin |-> origin,
     rpdesk1 |-> 1, pSelf |-> 1, phkNext |-> 1, iHook |-> iHook,
     offPfn |-> 1, flags |-> flags, ihmod |-> 1, target |-> target,
     rpdesk2 |-> 1]

\* ------------------------------------------------------------ bit operations
\* a & b and a & ~b of C on non-negative values, bit by bit
RECURSIVE BitAnd(_, _)
BitAnd(x, y) ==
    IF x = 0 \/ y = 0 THEN 0
    ELSE (x % 2) * (y % 2) + 2 * BitAnd(x \div 2, y \div 2)

RECURSIVE BitAndNot(_, _)
BitAndNot(x, y) ==
    IF x = 0 THEN 0
    ELSE (x % 2) * (1 - (y % 2)) + 2 * BitAndNot(x \div 2, y \div 2)

\* the cast (BYTE)
BYTE(x) == x % 256

\* ------------------------------------------------------------------ output
\* What is printed, as a sequence of events. Every event is a record
\* [ev, what, x, y, z].
NoticeBegin(difftype, pHead, deskname) ==
    [ev |-> "begin", what |-> difftype, x |-> pHead, y |-> deskname, z |-> 0]

NoticeEnd == [ev |-> "end", what |-> "", x |-> 0, y |-> 0, z |-> 0]

\* "The ... has changed." with the old and the new value
Changed(what, old, new) ==
    [ev |-> "field", what |-> what, x |-> old, y |-> new, z |-> 0]

\* "The ... flags have changed." with the flags same, removed and added; a
\* part that is zero is not printed
FlagsChanged(what, same, removed, added) ==
    [ev |-> "flags", what |-> what, x |-> same, y |-> removed, z |-> added]

\* "The associated gui %s thread information has changed."
GuiChanged(threadname, a, b) ==
    [ev |-> "gui", what |-> threadname, x |-> a, y |-> b, z |-> 0]

\* the outcome of a call that prints: st is "ok" (it returned), "fatal"
\* (FAIL_IF or MSG_FATAL, then exit(1)) or "crash" (an access through a wild
\* pointer trapped)
Printed(events) == [st |-> "ok", out |-> events]

\* --------------------------------------------------------- print_diff_gui
NullStr == "<NULL>"    \* a NULL char pointer

\* oldstuff / newstuff of print_diff_gui(): initialized empty, then filled
\* from the gui struct as far as it has the information
stuff(g) ==
    IF g = NULL
    THEN [pvWin32ThreadInfo |-> 0, pvTeb |-> 0, tid |-> 0, pid |-> 0,
          ImageName |-> UnicodeString(Name_unknown)]
    ELSE [pvWin32ThreadInfo |-> deref(g).pvWin32ThreadInfo,
          pvTeb |-> deref(g).pvTeb,
          tid |-> IF deref(g).sti THEN deref(g).tid ELSE 0,
          pid |-> IF deref(g).spi THEN deref(g).pid ELSE 0,
          ImageName |-> IF deref(g).spi /\ deref(g).ImageName.Buffer # <<>>
                            THEN deref(g).ImageName
                            ELSE UnicodeString(Name_unknown)]

\* the comparison of oldstuff and newstuff that makes print_diff_gui()
\* return FALSE
same_stuff(oldstuff, newstuff) ==
    /\ oldstuff.pvWin32ThreadInfo = newstuff.pvWin32ThreadInfo
    /\ oldstuff.pvTeb = newstuff.pvTeb
    /\ oldstuff.tid = newstuff.tid
    /\ oldstuff.pid = newstuff.pid
    /\ oldstuff.ImageName.Length = newstuff.ImageName.Length
    /\ wcsncmp(oldstuff.ImageName.Buffer, newstuff.ImageName.Buffer,
               oldstuff.ImageName.Length) = 0

\* print_diff_gui( a, b, threadname )
print_diff_gui(a, b, threadname) ==
    IF threadname = NullStr THEN [st |-> "fatal", out |-> <<>>]
    ELSE IF same_stuff(stuff(a), stuff(b)) THEN Printed(<<>>)
    ELSE Printed(<<GuiChanged(threadname, a, b)>>)

\* -------------------------------------------------------- print_diff_hook
\* print_diff_hook() calls print_diff_gui( "owner", a->owner, b->owner ): the
\* name is passed where the old gui struct is expected, the old gui struct
\* where the new one is expected and the new gui struct where the name is
\* expected. What the callee reads through the first and the third pointer:
\*  - the string literal, taken for a struct gui, is a non-NULL pointer to
\*    LiteralStruct;
\*  - the gui struct, taken for a string, is NULL when the pointer is NULL,
\*    the empty string when the first bytes of the struct are zero, and the
\*    bytes of an address otherwise: text that is no name of a thread;
\*  - reading through the pointers inside the "struct" may trap.
LiteralAsGui(literal) == {LiteralPtr}

GuiAsString(g) ==
    IF g = NULL THEN {NullStr}
    ELSE IF deref(g).pvWin32ThreadInfo = 0 THEN {""}
    ELSE {"<garbage>"}

call_print_diff_gui(literal, old, new) ==
    { print_diff_gui(a, old, threadname) :
          a \in LiteralAsGui(literal), threadname \in GuiAsString(new) }
    \cup (IF new # NULL THEN {[st |-> "crash", out |-> <<>>]} ELSE {})

\* one comparison of print_diff_hook() that prints old and new
compare_field(what, old, new) ==
    {Printed(IF old # new THEN <<Changed(what, old, new)>> ELSE <<>>)}

\* the comparison of entry.bFlags: the only one that prints the [begin]
\* header of the Modified notice (modified is FALSE when it is reached)
compare_bFlags(a, b, deskname) ==
    {Printed(IF a.bFlags # b.bFlags
             THEN <<NoticeBegin("Modified", b.pHead, deskname),
                    FlagsChanged("bFlags",
                                 BYTE(BitAnd(a.bFlags, b.bFlags)),
                                 BYTE(BitAndNot(a.bFlags, b.bFlags)),
                                 BYTE(BitAndNot(b.bFlags, a.bFlags)))>>
             ELSE <<>>)}

\* the comparison of object.flags: the three parts go through BYTE temp
compare_flags(a, b) ==
    {Printed(IF a.flags # b.flags
             THEN <<FlagsChanged("flags",
                                 BYTE(BitAnd(a.flags, b.flags)),
                                 BYTE(BitAndNot(a.flags, b.flags)),
                                 BYTE(BitAndNot(b.flags, a.flags)))>>
             ELSE <<>>)}

\* the comparisons of print_diff_hook(), in the order of the code
hook_comparisons(a, b, deskname) ==
    << compare_bFlags(a, b, deskname),
       call_print_diff_gui("owner", a.owner, b.owner),
       compare_field("h", a.h, b.h),
       compare_field("cLockObj", a.cLockObj, b.cLockObj),
       call_print_diff_gui("origin", a.origin, b.origin),
       compare_field("rpdesk1", a.rpdesk1, b.rpdesk1),
       compare_field("pSelf", a.pSelf, b.pSelf),
       compare_field("phkNext", a.phkNext, b.phkNext),
       compare_field("iHook", a.iHook, b.iHook),
       compare_field("offPfn", a.offPfn, b.offPfn),
       compare_flags(a, b),
       compare_field("ihmod", a.ihmod, b.ihmod),
       call_print_diff_gui("target", a.target, b.target),
       compare_field("rpdesk2", a.rpdesk2, b.rpdesk2) >>

\* the outcomes of running the comparisons from the i-th on: a comparison
\* that does not return ends the run
RECURSIVE run_comparisons(_, _)
run_comparisons(steps, i) ==
    IF i > Len(steps) THEN {Printed(<<>>)}
    ELSE { IF s.st = "ok" THEN [st |-> t.st, out |-> s.out \o t.out] ELSE s :
               s \in steps[i], t \in run_comparisons(steps, i + 1) }

\* print_diff_hook( a, b, deskname ): the set of its possible outcomes
print_diff_hook(a, b, deskname) ==
    run_comparisons(hook_comparisons(a, b, deskname), 1)

\* ------------------------------------------------------------------ inputs
\* the sequences of at most n elements of S
SeqsUpTo(S, n) == UNION {[1 .. k -> S] : k \in 0 .. n}

\* struct list_item of the proglist: a program name, or (name NULL) an id
ProgItems ==
    {[name |-> Name_a_exe, id |-> 0]}
    \cup {[name |-> <<>>, id |-> pid] : pid \in {0, 100, 200}}

\* struct list_item of the hooklist: the id of a hook
HookItems == {[name |-> <<>>, id |-> id] : id \in {2, 3}}

\* a list that was not initialized, or an include / exclude list
Lists(include, exclude, items) ==
    {[init_time |-> 0, type |-> include, head |-> <<>>]}
    \cup {[init_time |-> 1, type |-> t, head |-> h] :
              t \in {include, exclude}, h \in SeqsUpTo(items, MaxItems)}

Configs ==
    [proglist : Lists("LIST_INCLUDE_PROG", "LIST_EXCLUDE_PROG", ProgItems),
     hooklist : Lists("LIST_INCLUDE_HOOK", "LIST_EXCLUDE_HOOK", HookItems)]

NoConfig ==
    [proglist |-> [init_time |-> 0, type |-> "LIST_INCLUDE_PROG", head |-> <<>>],
     hooklist |-> [init_time |-> 0, type |-> "LIST_INCLUDE_HOOK", head |-> <<>>]]

NoHook == Hook(0, 0, 0, NULL, NULL, NULL, 0, 0, 0)

\* the hooks is_hook_wanted() is called on
WantedHooks ==
    {Hook(1, 16, 1, owner, origin, target, iHook, 1, 1) :
         owner \in GuiPtr, origin \in {NULL, 3}, target \in {NULL, 4},
         iHook \in {2, 3}}

\* the fields print_diff_hook() compares, in the order of the code
Fields ==
    <<"bFlags", "owner", "h", "cLockObj", "origin", "rpdesk1", "pSelf",
      "phkNext", "iHook", "offPfn", "flags", "ihmod", "target", "rpdesk2">>

FieldSet == {Fields[i] : i \in 1 .. Len(Fields)}

\* the values a field takes in the hooks print_diff_hook() is called on:
\* entry.bFlags is a BYTE, object.flags is wider than a BYTE
FieldValues(f) ==
    CASE f \in {"owner", "origin", "target"} -> GuiPtr
      [] f = "bFlags" -> {1, 2, 3}
      [] f = "flags"  -> {1, 257, 258}
      [] OTHER        -> {1, 2}

\* the old hook info print_diff_hook() is called on
OldHooks ==
    {Hook(1, 16, 1, owner, 3, target, 2, 257, 1) :
         owner \in GuiPtr, target \in {NULL, 4}}

\* the hook structs that differ from one of S in one field
VaryOne(S) ==
    UNION {{[hk EXCEPT ![f] = v] : v \in FieldValues(f)} :
               hk \in S, f \in FieldSet}

RECURSIVE Vary(_, _)
Vary(S, n) == IF n = 0 THEN S ELSE Vary(S \cup VaryOne(S), n - 1)

Pending == [st |-> "pending", ret |-> FALSE]

NotCalled == [st |-> "pending", out |-> <<>>]

\* no comparison of two stores
NoDiff ==
    /\ list1 = <<>> /\ list2 = <<>> /\ a_item = NULL /\ b_item = NULL
    /\ a_hi = 0 /\ b_hi = 0 /\ pc = "idle" /\ out = <<>> /\ classified = <<>>

\* ------------------------------------------------- is_hook_wanted, called
InitWanted ==
    /\ G_config \in Configs
    /\ w_hook \in WantedHooks
    /\ w_ret = Pending
    /\ h_a = NoHook /\ h_b = NoHook /\ h_res = NotCalled
    /\ NoDiff

CallIsHookWanted ==
    /\ w_ret = Pending
    /\ w_ret' = is_hook_wanted(w_hook, G_config)
    /\ UNCHANGED <<G_config, w_hook, hook_vars, diff_vars>>

NextWanted == CallIsHookWanted

SpecWanted == InitWanted /\ [][NextWanted]_vars

\* ------------------------------------------------ print_diff_hook, called
InitHook ==
    /\ h_a \in OldHooks
    /\ h_b \in Vary({h_a}, MaxDiffFields)
    /\ h_res = NotCalled
    /\ G_config = NoConfig /\ w_hook = NoHook /\ w_ret = Pending
    /\ NoDiff

CallPrintDiffHook ==
    /\ h_res = NotCalled
    /\ h_res' \in print_diff_hook(h_a, h_b, 1)
    /\ UNCHANGED <<G_config, wanted_vars, h_a, h_b, diff_vars>>

NextHook == CallPrintDiffHook

SpecHook == InitHook /\ [][NextHook]_vars

\* ------------------------------------------------ the desktop hook stores
\* the hook with the given key on a desktop, as the old (new = FALSE) or
\* the new snapshot has it. Of three hooks in a row
\*  - the first is of process 200 (b.exe) and is global (no target thread),
\*    and its lock count changes;
\*  - the second is of process 100 (a.exe), and its HANDLEENTRY flags change;
\*  - the third is of process 200 (A.EXE), and nothing of it changes.
SnapshotHook(desktop, key, new) ==
    CASE key % 3 = 1 ->
             Hook(key, 16 * desktop + key, 1, 5, 5, NULL, 3, 1,
                  IF new THEN 2 ELSE 1)
      [] key % 3 = 2 ->
             Hook(key, 16 * desktop + key, IF new THEN 3 ELSE 1, 3, 3, 3, 2, 1, 1)
      [] OTHER ->
             Hook(key, 16 * desktop + key, 1, 4, 4, 4, 2, 1, 1)

\* the keys of a set, ascending
Ascending(keys) == SelectSeq([k \in 1 .. MaxKey |-> k], LAMBDA k : k \in keys)

\* struct desktop_hook_item: the hooks of one desktop, sorted by compare_hook()
DesktopHookItem(desktop, keys, new) ==
    [desktop |-> desktop, hook_max |-> MaxKey, hook_count |-> Cardinality(keys),
     hook |-> [i \in 1 .. Cardinality(keys) |->
                   SnapshotHook(desktop, Ascending(keys)[i], new)]]

\* struct desktop_hook_list: one item for each attached desktop
DesktopHookList(count, keys, new) ==
    [i \in 1 .. count |-> DesktopHookItem(i, keys, new)]

\* list->head and item->next
head(list) == IF Len(list) > 0 THEN 1 ELSE NULL

next(list, item) == IF item < Len(list) THEN item + 1 ELSE NULL

\* the configurations the stores are compared under: no list; programs
\* excluded by pid and hooks included by id; programs included by name
DiffConfigs ==
    { NoConfig,
      [proglist |-> [init_time |-> 1, type |-> "LIST_EXCLUDE_PROG",
                     head |-> <<[name |-> <<>>, id |-> 100]>>],
       hooklist |-> [init_time |-> 1, type |-> "LIST_INCLUDE_HOOK",
                     head |-> <<[name |-> <<>>, id |-> 2]>>]],
      [proglist |-> [init_time |-> 1, type |-> "LIST_INCLUDE_PROG",
                     head |-> <<[name |-> Name_a_exe, id |-> 0]>>],
       hooklist |-> NoConfig.hooklist] }

\* compare_hook(): the order of the hooks of a desktop (negative, zero or
\* positive)
compare_hook(x, y) == x.key - y.key

\* match(), which print_diff_desktop_hook_items() calls to decide whether a
\* notice is printed: the check of the user-specified configuration
match(hook, config) == is_hook_wanted(hook, config)

\* a notice with nothing between its [begin] and [end] headers
notice(difftype, hook, deskname) ==
    <<NoticeBegin(difftype, hook.pHead, deskname), NoticeEnd>>

\* ------------------------------------------ print_diff_desktop_hook_lists
InitDiff ==
    /\ G_config \in DiffConfigs
    /\ \E count1, count2 \in 0 .. MaxDesktops, keys1, keys2 \in SUBSET (1 .. MaxKey) :
           /\ list1 = DesktopHookList(count1, keys1, FALSE)
           /\ list2 = DesktopHookList(count2, keys2, TRUE)
    /\ a_item = head(list1) /\ b_item = head(list2)
    /\ a_hi = 0 /\ b_hi = 0
    /\ pc = "lists"
    /\ out = <<>> /\ classified = <<>>
    /\ w_hook = NoHook /\ w_ret = Pending
    /\ h_a = NoHook /\ h_b = NoHook /\ h_res = NotCalled

\* a weaker test: both stores have items left (&& for ||)
ListsMismatch_and(item1, item2) == item1 # NULL /\ item2 # NULL

\* the test after the loop over the two stores: one of them has items left
ListsMismatch(item1, item2) == item1 # NULL \/ item2 # NULL

\* the FAIL_IFs of print_diff_desktop_hook_items(): both desktop hook items
\* point to the same desktop item
ItemsValid(item1, item2) ==
    /\ item1.desktop # NULL
    /\ item2.desktop # NULL
    /\ item1.desktop = item2.desktop
    /\ item1.hook_max = item2.hook_max

\* the loop of print_diff_desktop_hook_lists() calls
\* print_diff_desktop_hook_items( a, b )
CallItems ==
    /\ pc = "lists"
    /\ a_item # NULL /\ b_item # NULL
    /\ pc' = IF ItemsValid(list1[a_item], list2[b_item]) THEN "items" ELSE "exit"
    /\ a_hi' = 0 /\ b_hi' = 0
    /\ UNCHANGED <<G_config, wanted_vars, hook_vars, list1, list2, a_item, b_item, out,
                   classified>>

\* the loop is over and one store has items left: MSG_FATAL and exit( 1 )
ListsFatal ==
    /\ pc = "lists"
    /\ ~(a_item # NULL /\ b_item # NULL)
    /\ ListsMismatch(a_item, b_item)
    /\ pc' = "exit"
    /\ UNCHANGED <<G_config, wanted_vars, hook_vars, list1, list2, a_item, b_item, a_hi,
                   b_hi, out, classified>>

\* the loop is over and the stores were fully compared
ListsReturn ==
    /\ pc = "lists"
    /\ ~(a_item # NULL /\ b_item # NULL)
    /\ ~ListsMismatch(a_item, b_item)
    /\ pc' = "returned"
    /\ UNCHANGED <<G_config, wanted_vars, hook_vars, list1, list2, a_item, b_item, a_hi,
                   b_hi, out, classified>>

\* ------------------------------------------ print_diff_desktop_hook_items
\* a->hook[ a_hi ] and b->hook[ b_hi ]
hook_a == list1[a_item].hook[a_hi + 1]

hook_b == list2[b_item].hook[b_hi + 1]

b_deskname == list2[b_item].desktop

InFirstLoop ==
    /\ pc = "items"
    /\ a_hi < list1[a_item].hook_count
    /\ b_hi < list2[b_item].hook_count

\* first loop, ret < 0: hook removed
HookRemoved ==
    /\ InFirstLoop
    /\ compare_hook(hook_a, hook_b) < 0
    /\ LET m == match(hook_a, G_config)
       IN  IF m.st # "ok"
           THEN /\ pc' = "exit"
                /\ UNCHANGED <<a_hi, out, classified>>
           ELSE /\ out' = IF m.ret THEN out \o notice("Removed", hook_a, b_deskname)
                                   ELSE out
                /\ classified' = Append(classified, <<"Removed", a_item, hook_a.key>>)
                /\ a_hi' = a_hi + 1
                /\ pc' = pc
    /\ UNCHANGED <<G_config, wanted_vars, hook_vars, list1, list2, a_item, b_item, b_hi>>

\* first loop, ret > 0: hook added
HookAdded ==
    /\ InFirstLoop
    /\ compare_hook(hook_a, hook_b) > 0
    /\ LET m == match(hook_b, G_config)
       IN  IF m.st # "ok"
           THEN /\ pc' = "exit"
                /\ UNCHANGED <<b_hi, out, classified>>
           ELSE /\ out' = IF m.ret THEN out \o notice("Added", hook_b, b_deskname)
                                   ELSE out
                /\ classified' = Append(classified, <<"Added", b_item, hook_b.key>>)
                /\ b_hi' = b_hi + 1
                /\ pc' = pc
    /\ UNCHANGED <<G_config, wanted_vars, hook_vars, list1, list2, a_item, b_item, a_hi>>

\* first loop, ret == 0: the hook info exists in both snapshots
HookSame ==
    /\ InFirstLoop
    /\ compare_hook(hook_a, hook_b) = 0
    /\ \E r \in print_diff_hook(hook_a, hook_b, b_deskname) :
           /\ out' = out \o r.out
           /\ classified' = Append(classified, <<"Compared", a_item, hook_a.key>>)
           /\ IF r.st = "ok"
              THEN /\ a_hi' = a_hi + 1
                   /\ b_hi' = b_hi + 1
                   /\ pc' = pc
              ELSE /\ pc' = (IF r.st = "fatal" THEN "exit" ELSE "crash")
                   /\ UNCHANGED <<a_hi, b_hi>>
    /\ UNCHANGED <<G_config, wanted_vars, hook_vars, list1, list2, a_item, b_item>>

\* second loop: hooks removed
LeftRemoved ==
    /\ pc = "items"
    /\ ~InFirstLoop
    /\ a_hi < list1[a_item].hook_count
    /\ out' = out \o notice("Removed", hook_a, b_deskname)
    /\ classified' = Append(classified, <<"Removed", a_item, hook_a.key>>)
    /\ a_hi' = a_hi + 1
    /\ UNCHANGED <<G_config, wanted_vars, hook_vars, list1, list2, a_item, b_item, b_hi, pc>>

\* third loop: hooks added
LeftAdded ==
    /\ pc = "items"
    /\ ~InFirstLoop
    /\ ~(a_hi < list1[a_item].hook_count)
    /\ b_hi < list2[b_item].hook_count
    /\ out' = out \o notice("Added", hook_b, b_deskname)
    /\ classified' = Append(classified, <<"Added", b_item, hook_b.key>>)
    /\ b_hi' = b_hi + 1
    /\ UNCHANGED <<G_config, wanted_vars, hook_vars, list1, list2, a_item, b_item, a_hi, pc>>

\* return to the loop of print_diff_desktop_hook_lists(): a = a->next,
\* b = b->next
ItemsReturn ==
    /\ pc = "items"
    /\ ~(a_hi < list1[a_item].hook_count)
    /\ ~(b_hi < list2[b_item].hook_count)
    /\ a_item' = next(list1, a_item)
    /\ b_item' = next(list2, b_item)
    /\ pc' = "lists"
    /\ UNCHANGED <<G_config, wanted_vars, hook_vars, list1, list2, a_hi, b_hi,
                   out, classified>>

NextDiff ==
    \/ CallItems
    \/ ListsFatal
    \/ ListsReturn
    \/ HookRemoved
    \/ HookAdded
    \/ HookSame
    \/ LeftRemoved
    \/ LeftAdded
    \/ ItemsReturn

SpecDiff == InitDiff /\ [][NextDiff]_vars

\* ======================================================== the properties
\* ----------------------------------------------------------------- filter
Contexts == {"owner", "origin", "target"}

Lowercase(str) == [i \in DOMAIN str |-> towlower(str[i])]

\* one of the hook's gui threads is of a process with that name / that pid
HasProcessName(hook, name) ==
    \E c \in Contexts :
        /\ hook[c] # NULL
        /\ deref(hook[c]).spi
        /\ deref(hook[c]).ImageName.Buffer # <<>>
        /\ Lowercase(deref(hook[c]).ImageName.Buffer) = Lowercase(name)

HasProcessId(hook, pid) ==
    \E c \in Contexts :
        hook[c] # NULL /\ deref(hook[c]).spi /\ deref(hook[c]).pid = pid

MatchesProgram(hook, entry) ==
    IF entry.name # <<>> THEN HasProcessName(hook, entry.name)
    ELSE HasProcessId(hook, entry.id)

\* a disabled rule passes, an include rule passes iff some entry matches, an
\* exclude rule passes iff no entry matches
RulePasses(list, include, Matches(_)) ==
    \/ list.init_time = 0
    \/ LET any == \E i \in 1 .. Len(list.head) : Matches(list.head[i])
       IN  IF list.type = include THEN any ELSE ~any

ProgramRulePasses(hook, config) ==
    RulePasses(config.proglist, "LIST_INCLUDE_PROG",
               LAMBDA e : MatchesProgram(hook, e))

HookRulePasses(hook, config) ==
    RulePasses(config.hooklist, "LIST_INCLUDE_HOOK",
               LAMBDA e : e.id = hook.iHook)

Unresolvable(hook) ==
    \A c \in Contexts : hook[c] = NULL \/ ~deref(hook[c]).spi

Differs(f) ==
    IF f \in Contexts THEN ~same_stuff(stuff(h_a[f]), stuff(h_b[f]))
    ELSE h_a[f] # h_b[f]

DiffFields == {f \in FieldSet : Differs(f)}

IsChange(e) == e.ev \in {"field", "flags", "gui"}

\* the events of the changed fields that the call printed
ChangeEvents == SelectSeq(h_res.out, IsChange)

ModifiedBegins ==
    {i \in 1 .. Len(h_res.out) :
         h_res.out[i].ev = "begin" /\ h_res.out[i].what = "Modified"}

\* C5: when a field differs, whichever it is, print_diff_hook() prints
\* exactly one Modified notice for the hook and the desktop, begun before
\* the first change and ended after the last; when no field differs it
\* prints no Modified notice.
C5_ModifiedNoticeWrapsChanges ==
    h_res.st = "ok" =>
        IF DiffFields # {}
        THEN /\ Cardinality(ModifiedBegins) = 1
             /\ h_res.out[1] = NoticeBegin("Modified", h_b.pHead, 1)
             /\ h_res.out[Len(h_res.out)] = NoticeEnd
        ELSE ModifiedBegins = {}

\* C6: print_diff_hook() prints exactly one change for each of the fourteen
\* fields that differs, naming the field: nothing for two identical structs,
\* one change for two structs that differ in one field.
C6_OneChangePerDifferingField ==
    h_res.st = "ok" =>
        /\ Len(ChangeEvents) = Cardinality(DiffFields)
        /\ \A f \in DiffFields :
               \E i \in 1 .. Len(ChangeEvents) : ChangeEvents[i].what = f

\* C7: the gui thread of a slot is reported as changed, under the name of the
\* slot, iff the two gui structs differ once an absent struct and absent
\* thread / process information are taken as the unknown values.
C7_ContextChangeUnderRole ==
    h_res.st = "ok" =>
        \A c \in Contexts :
            Differs(c) <=>
                \E i \in 1 .. Len(h_res.out) :
                    h_res.out[i].ev = "gui" /\ h_res.out[i].what = c

\* the place of a field in the fixed order, 0 for no field
FieldPlace(what) ==
    IF what \in FieldSet
    THEN CHOOSE i \in 1 .. Len(Fields) : Fields[i] = what
    ELSE 0

\* C9: the changes of one pair are printed in the fixed order of the fields,
\* each gui thread at its place under its own name.
C9_ChangesInFieldOrder ==
    h_res.st = "ok" =>
        /\ \A i \in 1 .. Len(ChangeEvents) : FieldPlace(ChangeEvents[i].what) > 0
        /\ \A i, j \in 1 .. Len(ChangeEvents) :
               i < j => FieldPlace(ChangeEvents[i].what)
                            < FieldPlace(ChangeEvents[j].what)

BitOr(x, y) == x + y - BitAnd(x, y)

\* C10: for both flags fields the parts same, removed and added that are
\* reported cover the old and the new value (same | removed | added = A | B)
\* and removed and added share no bit.
C10_FlagsPartsCoverBothValues ==
    h_res.st = "ok" =>
        \A i \in 1 .. Len(h_res.out) :
            LET e == h_res.out[i]
            IN  e.ev = "flags" =>
                    /\ BitOr(BitOr(e.x, e.y), e.z) = BitOr(h_a[e.what], h_b[e.what])
                    /\ BitAnd(e.y, e.z) = 0

\* ------------------------------------------------------ the two stores
Min(x, y) == IF x < y THEN x ELSE y

\* the desktops that both stores have an item for
CommonDesktops == 1 .. Min(Len(list1), Len(list2))

KeysOf(item) == {item.hook[i].key : i \in 1 .. item.hook_count}

\* the call of print_diff_desktop_hook_items() for the d-th pair of items is
\* over: it returned, or the process exited in it
PairOver(d) ==
    \/ a_item = NULL
    \/ b_item = NULL
    \/ a_item > d
    \/ a_item = d /\ pc = "exit"

\* what was done with the hooks of the d-th desktop
ClassifiedOf(d) == SelectSeq(classified, LAMBDA c : c[2] = d)

\* every key of the d-th pair of items was handled, each once, as what the
\* merge of two sorted lists makes of it
FullyClassified(d) ==
    LET old  == KeysOf(list1[d])
        new  == KeysOf(list2[d])
        done == ClassifiedOf(d)
    IN  /\ {done[i] : i \in 1 .. Len(done)}
               = {<<"Removed", d, k>> : k \in old \ new}
                 \cup {<<"Added", d, k>> : k \in new \ old}
                 \cup {<<"Compared", d, k>> : k \in old \cap new}
        /\ Len(done) = Cardinality(old \cup new)

NoticesOf(d) ==
    {i \in 1 .. Len(out) : out[i].ev = "begin" /\ out[i].y = d}

\* C1: for two lists of the same desktop with ascending keys and any
\* configuration, print_diff_desktop_hook_items() handles every key only in
\* the old list as removed, every key only in the new list as added and every
\* key in both by one call of print_diff_hook(); every hook is handled once
\* and at most len(old) + len(new) notices are printed.
C1_MergeJoinClassifiesEveryKey ==
    \A d \in CommonDesktops :
        PairOver(d) =>
            /\ FullyClassified(d)
            /\ Cardinality(NoticesOf(d))
                   <= list1[d].hook_count + list2[d].hook_count

\* the hook a Removed or Added notice is about
NoticeHook(e) == SnapshotHook(e.y, e.x - 16 * e.y, e.what = "Added")

\* C2: a Removed or Added notice is printed only for a hook that is wanted
\* under the configuration, in the first loop and for the hooks left over in
\* one list when the other is exhausted.
C2_NoticeOnlyIfWanted ==
    \A i \in 1 .. Len(out) :
        (out[i].ev = "begin" /\ out[i].what \in {"Removed", "Added"})
            => is_hook_wanted(NoticeHook(out[i]), G_config) = Ok(TRUE)

\* the process ended in the test after the loop over the two stores
TopologyExit == pc = "exit" /\ (a_item = NULL \/ b_item = NULL)

\* C3: when the two stores hold different numbers of desktops the
\* call ends in the fatal state and nothing at all has been printed by then,
\* neither for the desktops left over nor for the pairs before them.
C3_NothingPrintedBeforeFatal ==
    Len(list1) # Len(list2) =>
        /\ pc # "returned"
        /\ TopologyExit => out = <<>>

\* C3, amended: when the two stores hold different numbers of desktops the
\* call never returns: it goes on until the process ends, which is in the
\* fatal state after the pairs of desktops that both stores have were all
\* compared, unless the process ended inside one of those comparisons; what
\* was printed by then is of those pairs, nothing is of a desktop left over.
C3_OnlyCommonPairsBeforeFatal ==
    Len(list1) # Len(list2) =>
        /\ pc # "returned"
        /\ pc \in {"lists", "items"} => ENABLED NextDiff
        /\ \A i \in 1 .. Len(classified) : classified[i][2] \in CommonDesktops
        /\ \A i \in 1 .. Len(out) :
               out[i].ev = "begin" => out[i].y \in CommonDesktops
        /\ TopologyExit => \A d \in CommonDesktops : FullyClassified(d)

\* the fatal state is reached with the notices of a common pair printed
C3_Witness ==
    /\ Len(list1) # Len(list2)
    /\ TopologyExit
    /\ out # <<>>

====
